---- MODULE Spec2Model ----
(***************************************************************************)
(* A model of DataCustomId (src/src/DataCustomId.ts): an identifier made   *)
(* of an immutable prefix (rawId), its path parts, and a mutable mapping   *)
(* of fields that is parsed from / serialized to a query-string-like       *)
(* block after the first "?".                                              *)
(*                                                                         *)
(* JavaScript strings are modelled as sequences of one-character strings,  *)
(* so that length, splitting and joining are computed and not assumed.     *)
(* JavaScript values are modelled as records of one shape, tagged by `t`.  *)
(***************************************************************************)
EXTENDS Integers, Sequences, FiniteSets

(***************************************************************************)
(* Bounds of the model and constants of the program                        *)
(***************************************************************************)

\* Discord's limit on the serialized length, enforced by toString.
MaxLength == 100

\* Longest array value offered to addField.
MaxArrayLen == 2

\* Number of extra long prefixes offered to the constructor, each one
\* character shorter than the previous one.
PadSlack == 0

\* Longest raw identifier enumerated by the parser specification.
MaxRawLen == 4

\* Longest element of the string arrays enumerated by the array
\* specification.
MaxElemLen == 2

(***************************************************************************)
(* Strings                                                                 *)
(***************************************************************************)

Digits == <<"0", "1", "2", "3", "4", "5", "6", "7", "8", "9">>

\* The value of a character as a digit of parseInt (0-9, a-z, A-Z), or 99.
DigitVal(c) ==
  CASE c = "0" -> 0 [] c = "1" -> 1 [] c = "2" -> 2 [] c = "3" -> 3
    [] c = "4" -> 4 [] c = "5" -> 5 [] c = "6" -> 6 [] c = "7" -> 7
    [] c = "8" -> 8 [] c = "9" -> 9
    [] c \in {"a", "A"} -> 10 [] c \in {"b", "B"} -> 11
    [] c \in {"c", "C"} -> 12 [] c \in {"d", "D"} -> 13
    [] c \in {"e", "E"} -> 14 [] c \in {"f", "F"} -> 15
    [] c \in {"l", "L"} -> 21 [] c \in {"n", "N"} -> 23
    [] c \in {"o", "O"} -> 24 [] c \in {"r", "R"} -> 27
    [] c \in {"s", "S"} -> 28 [] c \in {"t", "T"} -> 29
    [] c \in {"u", "U"} -> 30 [] c \in {"x", "X"} -> 33
    [] OTHER -> 99

IsDigit(c) == DigitVal(c) < 10

\* String.prototype.indexOf for a one-character needle: 1-based, 0 if absent.
RECURSIVE IndexFrom(_, _, _)
IndexFrom(s, c, i) ==
  IF i > Len(s) THEN 0
  ELSE IF s[i] = c THEN i
  ELSE IndexFrom(s, c, i + 1)

IndexOf(s, c) == IndexFrom(s, c, 1)

Includes(s, c) == IndexOf(s, c) > 0

\* String.prototype.split on a one-character separator: "" splits to <<"">>.
RECURSIVE Split(_, _)
Split(s, c) ==
  LET i == IndexOf(s, c) IN
  IF i = 0 THEN <<s>>
  ELSE <<SubSeq(s, 1, i - 1)>> \o Split(SubSeq(s, i + 1, Len(s)), c)

\* Array.prototype.join of strings.
RECURSIVE Join(_, _)
Join(parts, sep) ==
  IF Len(parts) = 0 THEN <<>>
  ELSE IF Len(parts) = 1 THEN parts[1]
  ELSE parts[1] \o sep \o Join(Tail(parts), sep)

\* The decimal digits of a natural number.
RECURSIVE NatToStr(_)
NatToStr(n) ==
  IF n < 10 THEN <<Digits[n + 1]>>
  ELSE NatToStr(n \div 10) \o <<Digits[(n % 10) + 1]>>

RECURSIVE Pow(_, _)
Pow(b, n) == IF n = 0 THEN 1 ELSE b * Pow(b, n - 1)

\* A string of n characters "x".
Pad(n) == [i \in 1..n |-> "x"]

(***************************************************************************)
(* JavaScript values                                                       *)
(*   t = "string":    s is the string                                      *)
(*   t = "number":    the finite number m / 10^e (e = 0 or m % 10 # 0)     *)
(*   t = "nan":       the number NaN                                       *)
(*   t = "boolean":   b                                                    *)
(*   t = "null", "undefined"                                               *)
(*   t = "array":     a is the sequence of its elements                    *)
(***************************************************************************)

Blank == [t |-> "undefined", s |-> <<>>, m |-> 0, e |-> 0, b |-> FALSE, a |-> <<>>]

Undefined == Blank
Null == [Blank EXCEPT !.t = "null"]
NaN == [Blank EXCEPT !.t = "nan"]
Str(s) == [Blank EXCEPT !.t = "string", !.s = s]
Bool(b) == [Blank EXCEPT !.t = "boolean", !.b = b]
Arr(a) == [Blank EXCEPT !.t = "array", !.a = a]

\* The number m / 10^e in lowest decimal terms.
RECURSIVE Num(_, _)
Num(m, e) ==
  IF e > 0 /\ m % 10 = 0 THEN Num(m \div 10, e - 1)
  ELSE [Blank EXCEPT !.t = "number", !.m = m, !.e = e]

IntNum(n) == Num(n, 0)

\* The typeof operator.
TypeOf(v) ==
  CASE v.t \in {"number", "nan"} -> "number"
    [] v.t \in {"null", "array"} -> "object"
    [] OTHER -> v.t

\* Falsy with the empty string forgotten.
FalsyButEmptyString(v) ==
  \/ v.t \in {"undefined", "null", "nan"}
  \/ v.t = "number" /\ v.m = 0
  \/ v.t = "boolean" /\ ~v.b

\* ToBoolean: !v is Falsy(v).
Falsy(v) ==
  \/ v.t \in {"undefined", "null", "nan"}
  \/ v.t = "string" /\ v.s = <<>>
  \/ v.t = "number" /\ v.m = 0
  \/ v.t = "boolean" /\ ~v.b

\* Number::toString for the numbers of the model (no exponent form).
NumToStr(v) ==
  LET abs == IF v.m < 0 THEN -v.m ELSE v.m
      scale == Pow(10, v.e)
      whole == NatToStr(abs \div scale)
      frac == NatToStr(scale + (abs % scale))
  IN (IF v.m < 0 THEN <<"-">> ELSE <<>>) \o whole \o
     (IF v.e = 0 THEN <<>> ELSE <<".">> \o Tail(frac))

\* String(v) of a primitive value.
PrimToStr(v) ==
  CASE v.t = "string" -> v.s
    [] v.t = "number" -> NumToStr(v)
    [] v.t = "nan" -> <<"N", "a", "N">>
    [] v.t = "boolean" -> IF v.b THEN <<"t", "r", "u", "e">>
                          ELSE <<"f", "a", "l", "s", "e">>
    [] v.t = "null" -> <<"n", "u", "l", "l">>
    [] OTHER -> <<"u", "n", "d", "e", "f", "i", "n", "e", "d">>

\* Array.prototype.join(","): null and undefined elements join as "".
RECURSIVE JoinElems(_)
JoinElems(a) ==
  LET one(v) == IF v.t \in {"null", "undefined"} THEN <<>> ELSE PrimToStr(v) IN
  IF Len(a) = 0 THEN <<>>
  ELSE IF Len(a) = 1 THEN one(a[1])
  ELSE one(a[1]) \o <<",">> \o JoinElems(Tail(a))

\* String(v): an array converts by join(",").
ToStr(v) == IF v.t = "array" THEN JoinElems(v.a) ELSE PrimToStr(v)

(***************************************************************************)
(* parseInt and parseFloat                                                 *)
(***************************************************************************)

IsWhiteSpace(c) == c = " "

\* The string without its leading white space.
RECURSIVE TrimStart(_)
TrimStart(s) ==
  IF Len(s) > 0 /\ IsWhiteSpace(s[1]) THEN TrimStart(Tail(s)) ELSE s

\* The number of leading characters of s that are digits of radix r.
RECURSIVE DigitRun(_, _)
DigitRun(s, r) ==
  IF Len(s) > 0 /\ DigitVal(s[1]) < r THEN 1 + DigitRun(Tail(s), r) ELSE 0

\* The value of a string of radix-r digits.
RECURSIVE DigitsValue(_, _)
DigitsValue(s, r) ==
  IF Len(s) = 0 THEN 0
  ELSE DigitsValue(SubSeq(s, 1, Len(s) - 1), r) * r + DigitVal(s[Len(s)])

HasSign(s) == Len(s) > 0 /\ s[1] \in {"+", "-"}

SignOf(s) == IF Len(s) > 0 /\ s[1] = "-" THEN -1 ELSE 1

DropSign(s) == IF HasSign(s) THEN Tail(s) ELSE s

HasHexPrefix(s) == Len(s) >= 2 /\ s[1] = "0" /\ s[2] \in {"x", "X"}

\* parseInt(string, radix).
parseInt(str, radix) ==
  LET t == TrimStart(str)
      body == DropSign(t)
      strip == radix \in {0, 16} /\ HasHexPrefix(body)
      r == IF radix = 0 THEN (IF strip THEN 16 ELSE 10) ELSE radix
      z == IF strip THEN SubSeq(body, 3, Len(body)) ELSE body
      n == DigitRun(z, r)
  IN IF radix # 0 /\ (radix < 2 \/ radix > 36) THEN NaN
     ELSE IF n = 0 THEN NaN
     ELSE IntNum(SignOf(t) * DigitsValue(SubSeq(z, 1, n), r))

\* parseFloat(string): the longest prefix that is a decimal literal
\* (the literal Infinity is outside the alphabet of the model).
parseFloat(str) ==
  LET t == TrimStart(str)
      body == DropSign(t)
      n1 == DigitRun(body, 10)
      rest1 == SubSeq(body, n1 + 1, Len(body))
      dot == Len(rest1) > 0 /\ rest1[1] = "."
      n2 == IF dot THEN DigitRun(Tail(rest1), 10) ELSE 0
      rest2 == IF dot THEN SubSeq(rest1, n2 + 2, Len(rest1)) ELSE rest1
      isExp == Len(rest2) > 0 /\ rest2[1] \in {"e", "E"}
      expBody == IF isExp THEN DropSign(Tail(rest2)) ELSE <<>>
      n3 == DigitRun(expBody, 10)
      expSign == IF isExp THEN SignOf(Tail(rest2)) ELSE 1
      x == IF n3 = 0 THEN 0 ELSE expSign * DigitsValue(SubSeq(expBody, 1, n3), 10)
      mant == DigitsValue(SubSeq(body, 1, n1) \o
                          (IF dot THEN SubSeq(rest1, 2, n2 + 1) ELSE <<>>), 10)
  IN IF n1 + n2 = 0 THEN NaN
     ELSE IF x >= n2 THEN Num(SignOf(t) * mant * Pow(10, x - n2), 0)
     ELSE Num(SignOf(t) * mant, n2 - x)

(***************************************************************************)
(* Objects: a mapping is the sequence of its own properties in JavaScript  *)
(* property order (array-index keys ascending, then insertion order).      *)
(***************************************************************************)

Entry(k, v) == [key |-> k, val |-> v]

KeysOf(f) == {f[i].key : i \in 1..Len(f)}

HasKey(f, k) == \E i \in 1..Len(f) : f[i].key = k

\* f[k]: undefined for an absent key.
Get(f, k) ==
  IF HasKey(f, k) THEN f[CHOOSE i \in 1..Len(f) : f[i].key = k].val
  ELSE Undefined

\* A canonical array index: "0", or digits without a leading zero.
IsIndexKey(k) ==
  /\ Len(k) > 0
  /\ \A i \in 1..Len(k) : IsDigit(k[i])
  /\ (Len(k) > 1 => k[1] # "0")

\* Whether a new key k is ordered before the existing key q.
KeyBefore(k, q) ==
  IsIndexKey(k) /\ (~IsIndexKey(q) \/ DigitsValue(k, 10) < DigitsValue(q, 10))

\* f[k] = v: an existing property keeps its place, a new one takes its place
\* in property order.
Put(f, k, v) ==
  IF HasKey(f, k)
  THEN [i \in 1..Len(f) |-> IF f[i].key = k THEN Entry(k, v) ELSE f[i]]
  ELSE LET before == {i \in 1..Len(f) : ~KeyBefore(k, f[i].key)}
           n == Cardinality(before)
       IN SubSeq(f, 1, n) \o <<Entry(k, v)>> \o SubSeq(f, n + 1, Len(f))

\* delete f[k].
Delete(f, k) == SelectSeq(f, LAMBDA en : en.key # k)

\* { ...f, ...g }.
RECURSIVE Spread(_, _)
Spread(f, g) ==
  IF Len(g) = 0 THEN f
  ELSE Spread(Put(f, g[1].key, g[1].val), Tail(g))

\* Two mappings with the same keys and the same value at each key.
SameMapping(f, g) ==
  /\ KeysOf(f) = KeysOf(g)
  /\ \A k \in KeysOf(f) : Get(f, k) = Get(g, k)

(***************************************************************************)
(* The qs library as DataCustomId uses it (qs 6.9.5 and later, where an    *)
(* empty array stringifies to nothing under arrayFormat "comma").  The     *)
(* alphabet of the model has no "[", "]", "%" or "+", so bracket notation  *)
(* and percent-decoding never apply, and no key is an inherited property   *)
(* name of Object.                                                         *)
(***************************************************************************)

\* parseArrayValue splitting every value, with or without a comma in it.
parseArrayValueAlways(val) ==
  Arr([i \in 1..Len(Split(val, ",")) |-> Str(Split(val, ",")[i])])

\* qs parseArrayValue with comma: true.
parseArrayValue(val) ==
  IF Len(val) > 0 /\ Includes(val, ",")
  THEN Arr([i \in 1..Len(Split(val, ",")) |-> Str(Split(val, ",")[i])])
  ELSE Str(val)

\* qs utils.combine: [].concat(a, b).
combine(a, b) ==
  Arr((IF a.t = "array" THEN a.a ELSE <<a>>) \o
      (IF b.t = "array" THEN b.a ELSE <<b>>))

\* qs parseValues over the "&"-separated parts, and parseKeys, which drops a
\* pair whose key is empty.
RECURSIVE parseParts(_, _)
parseParts(parts, obj) ==
  IF Len(parts) = 0 THEN obj
  ELSE LET part == parts[1]
           pos == IndexOf(part, "=")
           key == IF pos = 0 THEN part ELSE SubSeq(part, 1, pos - 1)
           val == IF pos = 0 THEN Str(<<>>)
                  ELSE parseArrayValue(SubSeq(part, pos + 1, Len(part)))
           next == IF Len(key) = 0 THEN obj
                   ELSE IF HasKey(obj, key)
                        THEN Put(obj, key, combine(Get(obj, key), val))
                        ELSE Put(obj, key, val)
       IN parseParts(Tail(parts), next)

\* qs.parse(str, { comma: true }).
qsParse(str) ==
  IF Len(str) = 0 THEN <<>> ELSE parseParts(Split(str, "&"), <<>>)

\* qs stringify of one property with arrayFormat "repeat": one pair for each
\* element of an array.
stringifyEntryRepeat(key, v) ==
  CASE v.t = "array" ->
         [i \in 1..Len(v.a) |-> key \o <<"=">> \o PrimToStr(v.a[i])]
    [] v.t \in {"null", "undefined"} -> <<>>
    [] OTHER -> <<key \o <<"=">> \o PrimToStr(v)>>

\* qs stringify of one property with arrayFormat "comma", skipNulls and no
\* encoding: the "key=value" pairs it contributes (none or one).
stringifyEntry(key, v) ==
  CASE v.t = "array" ->
         IF Len(v.a) = 0 \/ Len(JoinElems(v.a)) = 0 THEN <<>>
         ELSE <<key \o <<"=">> \o JoinElems(v.a)>>
    [] v.t \in {"null", "undefined"} -> <<>>
    [] OTHER -> <<key \o <<"=">> \o PrimToStr(v)>>

RECURSIVE stringifyPairs(_)
stringifyPairs(obj) ==
  IF Len(obj) = 0 THEN <<>>
  ELSE stringifyEntry(obj[1].key, obj[1].val) \o stringifyPairs(Tail(obj))

\* qs.stringify(obj, { addQueryPrefix: true, arrayFormat: "comma",
\*                     skipNulls: true, encode: false }).
qsStringify(obj) ==
  LET joined == Join(stringifyPairs(obj), <<"&">>) IN
  IF Len(joined) > 0 THEN <<"?">> \o joined ELSE <<>>

(***************************************************************************)
(* Encode options: each switch is "true", "false" or "unset" (the property *)
(* is absent from the options object).                                     *)
(***************************************************************************)

Switch == {"true", "false", "unset"}

Options(skip, one) == [skipFalsyValues |-> skip, convertTrueToOne |-> one]

AllOptions == {Options(s, o) : s \in Switch, o \in Switch}

\* The initial value of the exported defaultEncodeOptions object.
InitialEncodeOptions == Options("true", "false")

(***************************************************************************)
(* DataCustomId                                                            *)
(***************************************************************************)

\* The constructor splitting at the last "?" instead of the first.
DataCustomIdAtLastMark(id) ==
  LET marks == {i \in 1..Len(id) : id[i] = "?"}
      q == IF marks = {} THEN 0 ELSE CHOOSE i \in marks : \A j \in marks : j <= i
      raw == IF q > 0 THEN SubSeq(id, 1, q - 1) ELSE id
  IN [rawId |-> raw,
      pathParts |-> Split(raw, "/"),
      fields |-> IF q > 0 THEN qsParse(SubSeq(id, q + 1, Len(id))) ELSE <<>>]

\* new DataCustomId(id): the instance's rawId, pathParts and fields.
DataCustomId(id) ==
  LET q == IndexOf(id, "?")
      raw == IF q > 0 THEN SubSeq(id, 1, q - 1) ELSE id
  IN [rawId |-> raw,
      pathParts |-> Split(raw, "/"),
      fields |-> IF q > 0 THEN qsParse(SubSeq(id, q + 1, Len(id))) ELSE <<>>]

addField(f, key, value) == Put(f, key, value)

\* addFields spreading in the other order, so that the stored entries win.
addFieldsKeepingStored(f, g) == Spread(g, f)

addFields(f, g) == Spread(f, g)

removeField(f, key) == Delete(f, key)

\* copyFieldsFrom spreading in the other order, so that this mapping wins.
copyFieldsFromKeepingOwn(f, otherFields) == Spread(otherFields, f)

copyFieldsFrom(f, otherFields) == Spread(f, otherFields)

getFields(f) == f

getStringField(f, key) ==
  IF TypeOf(Get(f, key)) = "string" THEN Get(f, key) ELSE Str(<<>>)

\* getStringArrayField returning a stored scalar as it is, not wrapped.
getStringArrayFieldUnwrapped(f, key) ==
  IF TypeOf(Get(f, key)) = "undefined" THEN Arr(<<>>) ELSE Get(f, key)

getStringArrayField(f, key) ==
  IF TypeOf(Get(f, key)) = "undefined" THEN Arr(<<>>)
  ELSE IF Get(f, key).t = "array" THEN Get(f, key)
  ELSE Arr(<<Get(f, key)>>)

\* getNumericField parsing integers in base 10 whatever the base argument.
getNumericFieldBase10(f, key, float, base) ==
  IF TypeOf(Get(f, key)) = "string"
  THEN (IF float THEN parseFloat(Get(f, key).s) ELSE parseInt(Get(f, key).s, 10))
  ELSE IF TypeOf(Get(f, key)) = "number" THEN Get(f, key)
  ELSE NaN

getNumericField(f, key, float, base) ==
  IF TypeOf(Get(f, key)) = "string"
  THEN (IF float THEN parseFloat(Get(f, key).s) ELSE parseInt(Get(f, key).s, base))
  ELSE IF TypeOf(Get(f, key)) = "number" THEN Get(f, key)
  ELSE NaN

\* The map callback parseInt(x, 10): x is converted to a string first.
getNumericArrayField(f, key, float, base) ==
  IF TypeOf(Get(f, key)) = "undefined" THEN Arr(<<>>)
  ELSE LET xs == getStringArrayField(f, key).a
       IN Arr([i \in 1..Len(xs) |-> parseInt(ToStr(xs[i]), 10)])

\* getBooleanField by truthiness instead of strict equality.
getBooleanFieldTruthy(f, key) == ~Falsy(Get(f, key))

getBooleanField(f, key) ==
  \/ Get(f, key) = Str(<<"t", "r", "u", "e">>)
  \/ Get(f, key) = Str(<<"1">>)
  \/ Get(f, key) = Bool(TRUE)
  \/ Get(f, key) = IntNum(1)

\* The loop body converting the boolean true only, not the string "true".
compressEntryBooleanOnly(en, options) ==
  IF options.skipFalsyValues = "true" /\ Falsy(en.val) THEN <<>>
  ELSE IF options.convertTrueToOne = "true" /\ en.val = Bool(TRUE)
       THEN <<Entry(en.key, Str(<<"1">>))>>
  ELSE <<en>>

\* The body of the for-in loop of compressFields for one property.
compressEntry(en, options) ==
  IF options.skipFalsyValues = "true" /\ Falsy(en.val) THEN <<>>
  ELSE IF /\ options.convertTrueToOne = "true"
          /\ en.val \in {Bool(TRUE), Str(<<"t", "r", "u", "e">>)}
       THEN <<Entry(en.key, Str(<<"1">>))>>
  ELSE <<en>>

RECURSIVE compressLoop(_, _)
compressLoop(f, options) ==
  IF Len(f) = 0 THEN <<>>
  ELSE compressEntry(f[1], options) \o compressLoop(Tail(f), options)

\* Object.values(options).every((v) => v === false): an absent switch is
\* not among the values.
EveryOptionDisabled(options) ==
  /\ options.skipFalsyValues \in {"false", "unset"}
  /\ options.convertTrueToOne \in {"false", "unset"}

compressFields(f, options) ==
  IF EveryOptionDisabled(options) THEN f ELSE compressLoop(f, options)

\* The string toString composes before the length check.
finalId(raw, f, options) ==
  LET encodedFields == qsStringify(compressFields(f, options)) IN
  IF Len(encodedFields) > 1 THEN raw \o encodedFields ELSE raw

\* toString refusing a string of exactly MaxLength characters.
toStringAtLimit(raw, f, options) ==
  LET id == finalId(raw, f, options) IN
  IF Len(id) >= MaxLength
  THEN [threw |-> TRUE, error |-> "DataCustomIdLengthError", value |-> Str(id)]
  ELSE [threw |-> FALSE, error |-> "", value |-> Str(id)]

\* toString(compressionOptions): the returned string, or the thrown
\* DataCustomIdLengthError with the string its message carries.
toString(raw, f, options) ==
  LET id == finalId(raw, f, options) IN
  IF Len(id) > MaxLength
  THEN [threw |-> TRUE, error |-> "DataCustomIdLengthError", value |-> Str(id)]
  ELSE [threw |-> FALSE, error |-> "", value |-> Str(id)]

(***************************************************************************)
(* Inputs offered by the callers of the model                              *)
(***************************************************************************)

sTrue == <<"t", "r", "u", "e">>

Keys == {<<"a">>, <<"b">>}

\* The elements the array inputs are cut from.
ArrSample == <<Str(<<"f", "f">>), IntNum(1), Str(<<"1", ".", "5">>), Str(<<"7">>)>>

ArrayValues == {Arr(SubSeq(ArrSample, 1, n)) : n \in 0..MaxArrayLen}

ScalarValues ==
  {Str(<<>>), IntNum(0), Bool(FALSE), Null, Undefined, NaN,
   Bool(TRUE), Str(sTrue), IntNum(1), Str(<<"1">>),
   Str(<<"f", "f">>), Str(<<"1", ".", "5">>), Str(<<"1", ",", "f", "f">>)}

Values == ScalarValues \cup ArrayValues

\* The objects passed to addFields.
FieldBatches ==
  {<<Entry(<<"a">>, Bool(TRUE)), Entry(<<"b">>, Str(sTrue))>>,
   <<Entry(<<"b">>, IntNum(0)), Entry(<<"a">>, Str(<<"f", "f">>))>>,
   <<Entry(<<"b">>, Arr(<<>>))>>}

\* The raw identifiers passed to the constructor.
RawIds ==
  {<<>>, <<"a", "/", "b", "?", "a", "=", "1", "&", "b", "=", "1", ",", "f", "f">>}
    \cup {Pad(MaxLength - 4 - i) : i \in 0..PadSlack}

\* The raw identifiers of the instance passed to copyFieldsFrom.
OtherRawIds ==
  {<<"o", "?", "b", "=", "1">>,
   <<"o", "?", "a", "=", "t", "r", "u", "e", "&", "b", "=", "1", ",", "f", "f">>}

Bases == {10, 16}

(***************************************************************************)
(* State                                                                   *)
(***************************************************************************)

VARIABLES
  rawId,                 \* this.rawId
  pathParts,             \* this.pathParts
  fields,                \* this.fields
  other,                 \* a second instance, the argument of copyFieldsFrom
  defaultEncodeOptions,  \* the exported, mutable default options
  last                   \* the call that has just returned to the caller

vars == <<rawId, pathParts, fields, other, defaultEncodeOptions, last>>

\* What the caller holds after a call: the call, its arguments, and what it
\* returned or threw.  Every mutator returns this, so its ret is unused.
\* No earlier serialization: toString returns or carries a string, never
\* undefined.
NoPrior ==
  [given |-> FALSE, opts |-> Options("unset", "unset"), threw |-> FALSE,
   ret |-> Undefined]

\* The outcome of the serialization in `l`, as the caller keeps it.
Prior(l) == [given |-> l.given, opts |-> l.opts, threw |-> l.threw, ret |-> l.ret]

Idle ==
  [op |-> "idle", key |-> <<>>, val |-> Undefined, src |-> "", float |-> FALSE,
   base |-> 0, given |-> FALSE, opts |-> Options("unset", "unset"),
   raw |-> <<>>, threw |-> FALSE, ret |-> Undefined, batch |-> <<>>,
   prior |-> NoPrior]

Constructed(raw) == [Idle EXCEPT !.op = "new", !.raw = raw]

Got(op, key, ret) == [Idle EXCEPT !.op = op, !.key = key, !.ret = ret]

GotNumeric(op, key, float, base, ret) ==
  [Idle EXCEPT !.op = op, !.key = key, !.float = float, !.base = base, !.ret = ret]

Serialized(given, opts, res) ==
  [Idle EXCEPT !.op = "toString", !.given = given, !.opts = opts,
               !.threw = res.threw, !.ret = res.value]

Init ==
  /\ rawId = DataCustomId(<<>>).rawId
  /\ pathParts = DataCustomId(<<>>).pathParts
  /\ fields = DataCustomId(<<>>).fields
  /\ other = DataCustomId(<<"o", "?", "b", "=", "1">>)
  /\ defaultEncodeOptions = InitialEncodeOptions
  /\ last = Constructed(<<>>)

(***************************************************************************)
(* Actions: one per call the caller can make.  A call leaves what it       *)
(* returned in `last` until the caller resumes and makes its next call.    *)
(***************************************************************************)

\* this = new DataCustomId(id)
Construct(id) ==
  /\ rawId' = DataCustomId(id).rawId
  /\ pathParts' = DataCustomId(id).pathParts
  /\ fields' = DataCustomId(id).fields
  /\ UNCHANGED <<other, defaultEncodeOptions>>

New ==
  /\ last.op = "idle"
  /\ \E id \in RawIds :
       /\ Construct(id)
       /\ last' = Constructed(id)

\* this = new DataCustomId(this.toString(...)): the string just returned is
\* parsed back; the caller still knows the options it was serialized with.
Reparse ==
  /\ last.op = "toString"
  /\ ~last.threw
  /\ Construct(last.ret.s)
  /\ last' = [Constructed(last.ret.s) EXCEPT !.given = last.given, !.opts = last.opts]

\* other = new DataCustomId(id)
NewOther ==
  /\ last.op = "idle"
  /\ \E id \in OtherRawIds : other' = DataCustomId(id)
  /\ UNCHANGED <<rawId, pathParts, fields, defaultEncodeOptions, last>>

\* addField enforcing the length limit itself: it throws, and adds nothing,
\* when the identifier would no longer serialize.
AddFieldChecked ==
  /\ last.op = "idle"
  /\ \E key \in Keys, value \in Values :
       LET f == addField(fields, key, value)
           over == toString(rawId, f, defaultEncodeOptions).threw
       IN /\ fields' = IF over THEN fields ELSE f
          /\ last' = [Idle EXCEPT !.op = "addField", !.key = key, !.val = value,
                                  !.threw = over]
  /\ UNCHANGED <<rawId, pathParts, other, defaultEncodeOptions>>

AddField ==
  /\ last.op = "idle"
  /\ \E key \in Keys, value \in Values :
       /\ fields' = addField(fields, key, value)
       /\ last' = [Idle EXCEPT !.op = "addField", !.key = key, !.val = value]
  /\ UNCHANGED <<rawId, pathParts, other, defaultEncodeOptions>>

AddFields ==
  /\ last.op = "idle"
  /\ \E g \in FieldBatches :
       /\ fields' = addFields(fields, g)
       /\ last' = [Idle EXCEPT !.op = "addFields", !.batch = g]
  /\ UNCHANGED <<rawId, pathParts, other, defaultEncodeOptions>>

RemoveField ==
  /\ last.op = "idle"
  /\ \E key \in Keys :
       /\ fields' = removeField(fields, key)
       /\ last' = [Idle EXCEPT !.op = "removeField", !.key = key]
  /\ UNCHANGED <<rawId, pathParts, other, defaultEncodeOptions>>

\* copyFieldsFrom taking over the prefix and the path parts of the other
\* instance along with its fields.
CopyFieldsFromWithRawId ==
  /\ last.op = "idle"
  /\ fields' = copyFieldsFrom(fields, other.fields)
  /\ rawId' = other.rawId
  /\ pathParts' = other.pathParts
  /\ last' = [Idle EXCEPT !.op = "copyFieldsFrom", !.src = "other"]
  /\ UNCHANGED <<other, defaultEncodeOptions>>

\* this.copyFieldsFrom(other)
CopyFieldsFrom ==
  /\ last.op = "idle"
  /\ fields' = copyFieldsFrom(fields, other.fields)
  /\ last' = [Idle EXCEPT !.op = "copyFieldsFrom", !.src = "other"]
  /\ UNCHANGED <<rawId, pathParts, other, defaultEncodeOptions>>

\* this.copyFieldsFrom(this)
CopyFieldsFromSelf ==
  /\ last.op = "idle"
  /\ fields' = copyFieldsFrom(fields, fields)
  /\ last' = [Idle EXCEPT !.op = "copyFieldsFrom", !.src = "this"]
  /\ UNCHANGED <<rawId, pathParts, other, defaultEncodeOptions>>

\* getFields returns the live mapping, which the caller reads as `fields`.
GetFields ==
  /\ last.op = "idle"
  /\ last' = [Idle EXCEPT !.op = "getFields"]
  /\ UNCHANGED <<rawId, pathParts, fields, other, defaultEncodeOptions>>

GetStringField ==
  /\ last.op = "idle"
  /\ \E key \in Keys :
       last' = Got("getStringField", key, getStringField(fields, key))
  /\ UNCHANGED <<rawId, pathParts, fields, other, defaultEncodeOptions>>

GetStringArrayField ==
  /\ last.op = "idle"
  /\ \E key \in Keys :
       last' = Got("getStringArrayField", key, getStringArrayField(fields, key))
  /\ UNCHANGED <<rawId, pathParts, fields, other, defaultEncodeOptions>>

GetNumericField ==
  /\ last.op = "idle"
  /\ \E key \in Keys, float \in BOOLEAN, base \in Bases :
       last' = GotNumeric("getNumericField", key, float, base,
                          getNumericField(fields, key, float, base))
  /\ UNCHANGED <<rawId, pathParts, fields, other, defaultEncodeOptions>>

GetNumericArrayField ==
  /\ last.op = "idle"
  /\ \E key \in Keys, float \in BOOLEAN, base \in Bases :
       last' = GotNumeric("getNumericArrayField", key, float, base,
                          getNumericArrayField(fields, key, float, base))
  /\ UNCHANGED <<rawId, pathParts, fields, other, defaultEncodeOptions>>

GetBooleanField ==
  /\ last.op = "idle"
  /\ \E key \in Keys :
       last' = Got("getBooleanField", key, Bool(getBooleanField(fields, key)))
  /\ UNCHANGED <<rawId, pathParts, fields, other, defaultEncodeOptions>>

\* toString() using the defaults as they were when the module was loaded.
ToStringDefaultInitial ==
  /\ last.op = "idle"
  /\ last' = Serialized(FALSE, InitialEncodeOptions,
                        toString(rawId, fields, InitialEncodeOptions))
  /\ UNCHANGED <<rawId, pathParts, fields, other, defaultEncodeOptions>>

\* this.toString(): the parameter defaults to defaultEncodeOptions
ToStringDefault ==
  /\ last.op = "idle"
  /\ last' = Serialized(FALSE, defaultEncodeOptions,
                        toString(rawId, fields, defaultEncodeOptions))
  /\ UNCHANGED <<rawId, pathParts, fields, other, defaultEncodeOptions>>

\* toString keeping the compressed mapping as the instance's fields.
ToStringWithInPlace ==
  /\ last.op = "idle"
  /\ \E opts \in AllOptions :
       /\ last' = Serialized(TRUE, opts, toString(rawId, fields, opts))
       /\ fields' = compressFields(fields, opts)
  /\ UNCHANGED <<rawId, pathParts, other, defaultEncodeOptions>>

\* this.toString(compressionOptions)
ToStringWith ==
  /\ last.op = "idle"
  /\ \E opts \in AllOptions :
       last' = Serialized(TRUE, opts, toString(rawId, fields, opts))
  /\ UNCHANGED <<rawId, pathParts, fields, other, defaultEncodeOptions>>

\* The options of the call a caller makes in between two equal calls.
BetweenOptions == Options("true", "true")

\* this.toString(...) called again right after a toString: the call just
\* made is repeated, or the first call of the run is repeated, or a call is
\* made with other options.  The caller keeps the outcome of the first call.
ToStringAgain ==
  /\ last.op = "toString"
  /\ LET first == IF last.prior = NoPrior THEN Prior(last) ELSE last.prior IN
     \E call \in {Prior(last), first,
                  [NoPrior EXCEPT !.given = TRUE, !.opts = BetweenOptions]} :
       LET opts == IF call.given THEN call.opts ELSE defaultEncodeOptions IN
       last' = [Serialized(call.given, opts, toString(rawId, fields, opts))
                  EXCEPT !.prior = first]
  /\ UNCHANGED <<rawId, pathParts, fields, other, defaultEncodeOptions>>

\* The retry with a toString that keeps the string it composed first: the
\* caller gets the outcome of the failed call again.
RetryFromCache ==
  /\ last.op = "toString"
  /\ last.threw
  /\ \E key \in Keys :
       /\ fields' = removeField(fields, key)
       /\ last' = [last EXCEPT !.key = key]
  /\ UNCHANGED <<rawId, pathParts, other, defaultEncodeOptions>>

\* catch (e) { this.removeField(key); this.toString(...) }: the caller that
\* caught the length error removes a field and serializes again with the
\* options of the failed call.
Retry ==
  /\ last.op = "toString"
  /\ last.threw
  /\ \E key \in Keys :
       /\ fields' = removeField(fields, key)
       /\ last' = [Serialized(last.given, last.opts,
                              toString(rawId, fields', last.opts))
                     EXCEPT !.key = key]
  /\ UNCHANGED <<rawId, pathParts, other, defaultEncodeOptions>>

\* defaultEncodeOptions.skipFalsyValues = value, by any module that imports it
SetDefaultEncodeOptions ==
  /\ last.op = "idle"
  /\ \E value \in {"true", "false"} :
       defaultEncodeOptions' = [defaultEncodeOptions EXCEPT !.skipFalsyValues = value]
  /\ UNCHANGED <<rawId, pathParts, fields, other, last>>

\* The caller has used what the call returned, or caught what it threw.
Resume ==
  /\ last.op # "idle"
  /\ last' = Idle
  /\ UNCHANGED <<rawId, pathParts, fields, other, defaultEncodeOptions>>

Next ==
  \/ New
  \/ Reparse
  \/ NewOther
  \/ AddField
  \/ AddFields
  \/ RemoveField
  \/ CopyFieldsFrom
  \/ CopyFieldsFromSelf
  \/ GetFields
  \/ GetStringField
  \/ GetStringArrayField
  \/ GetNumericField
  \/ GetNumericArrayField
  \/ GetBooleanField
  \/ ToStringDefault
  \/ ToStringWith
  \/ ToStringAgain
  \/ Retry
  \/ SetDefaultEncodeOptions
  \/ Resume

Spec == Init /\ [][Next]_vars

(***************************************************************************)
(* The parser on its own: the constructor applied to every string over the *)
(* characters of the grammar, up to MaxRawLen characters, and to what      *)
(* toString makes of the result.                                           *)
(***************************************************************************)

Alphabet == {"a", "1", "/", "?", "=", "&", ","}

RawStrings == UNION {[1..n -> Alphabet] : n \in 0..MaxRawLen}

\* The state after new DataCustomId(id), for any such string.
InitParse ==
  /\ \E id \in RawStrings :
       /\ rawId = DataCustomId(id).rawId
       /\ pathParts = DataCustomId(id).pathParts
       /\ fields = DataCustomId(id).fields
       /\ last = Constructed(id)
  /\ other = DataCustomId(<<"o", "?", "b", "=", "1">>)
  /\ defaultEncodeOptions = InitialEncodeOptions

NextParse ==
  \/ ToStringDefault
  \/ ToStringWith
  \/ Reparse
  \/ Resume

SpecParse == InitParse /\ [][NextParse]_vars

(***************************************************************************)
(* String arrays on their own: an identifier with one field, set by        *)
(* addField to any array of up to MaxArrayLen strings of up to MaxElemLen  *)
(* characters, is serialized, parsed back and read.                        *)
(***************************************************************************)

ElemAlphabet == {"a", ",", "&"}

ElemStrings == UNION {[1..n -> ElemAlphabet] : n \in 0..MaxElemLen}

StringArrays ==
  UNION {[1..n -> {Str(s) : s \in ElemStrings}] : n \in 0..MaxArrayLen}

\* The state after new DataCustomId("x").addField("a", A), for any such A.
InitArray ==
  /\ rawId = DataCustomId(<<"x">>).rawId
  /\ pathParts = DataCustomId(<<"x">>).pathParts
  /\ \E A \in StringArrays :
       /\ fields = addField(DataCustomId(<<"x">>).fields, <<"a">>, Arr(A))
       /\ last = [Idle EXCEPT !.op = "addField", !.key = <<"a">>, !.val = Arr(A)]
  /\ other = DataCustomId(<<"o", "?", "b", "=", "1">>)
  /\ defaultEncodeOptions = InitialEncodeOptions

NextArray ==
  \/ ToStringDefault
  \/ Reparse
  \/ GetStringArrayField
  \/ Resume

SpecArray == InitArray /\ [][NextArray]_vars

(***************************************************************************)
(* Properties                                                              *)
(***************************************************************************)

\* C1: toString fails with the length error exactly when the composed
\* string, the prefix followed by the field block, is longer than 100
\* characters; a composed string of 100 characters is returned as it is, and
\* the error carries the composed string.
LengthLimitEnforced ==
  last.op = "toString" =>
    LET composed == rawId \o qsStringify(compressFields(fields, last.opts)) IN
    /\ last.threw <=> Len(composed) > 100
    /\ last.ret = Str(composed)

\* toString has thrown for a composed string of 101 characters.
LengthLimitExceededBy1 ==
  /\ last.op = "toString"
  /\ last.threw
  /\ Len(last.ret.s) = 101
  /\ Len(fields) > 0

\* The characters the field-block grammar and qs give a meaning to.
ReservedChars == {",", "&", "=", "%", "+", "[", "]"}

PlainString(s) == Len(s) > 0 /\ \A i \in 1..Len(s) : s[i] \notin ReservedChars

TruthyStrings(f) ==
  \A i \in 1..Len(f) : f[i].val.t = "string" /\ Len(f[i].val.s) > 0

PlainStrings(f) ==
  \A i \in 1..Len(f) :
    /\ f[i].val.t = "string"
    /\ PlainString(f[i].val.s)
    /\ PlainString(f[i].key)

\* A step that constructs an identifier from what
\* toString({ skipFalsyValues: false }) has just returned.
RoundTripStep ==
  /\ last.op = "toString"
  /\ ~last.threw
  /\ last.given
  /\ last.opts = Options("false", "unset")
  /\ last'.op = "new"

\* C2 as stated: for any mapping whose values are all non-empty strings, the
\* identifier constructed from toString({ skipFalsyValues: false }) has an
\* equal mapping.
RoundTripOfTruthyStrings ==
  [][RoundTripStep /\ TruthyStrings(fields) => SameMapping(fields', fields)]_vars

\* C2 as amended: for any mapping whose keys and values are non-empty
\* strings without a reserved character, the identifier constructed from
\* toString({ skipFalsyValues: false }) has an equal mapping.
RoundTripOfPlainStrings ==
  [][RoundTripStep /\ PlainStrings(fields) => SameMapping(fields', fields)]_vars

\* An identifier with two plain string fields has been constructed from what
\* toString({ skipFalsyValues: false }) returned.
RoundTripDone ==
  /\ last.op = "new"
  /\ last.given
  /\ last.opts = Options("false", "unset")
  /\ Len(fields) = 2
  /\ PlainStrings(fields)
  /\ Includes(last.raw, "&")

\* The values C3 calls falsy.
ClaimedFalsy(v) ==
  \/ v = Str(<<>>)
  \/ v = IntNum(0)
  \/ v = Arr(<<>>)
  \/ v = Null
  \/ v = Undefined
  \/ v = Bool(FALSE)

\* The names of the name=value pairs of a serialized identifier whose
\* prefix has n characters.
PairKeys(s, n) ==
  LET parts == IF Len(s) <= n + 1 THEN <<>>
               ELSE Split(SubSeq(s, n + 2, Len(s)), "&")
  IN {SubSeq(parts[i], 1, IndexOf(parts[i], "=") - 1) : i \in 1..Len(parts)}

\* C3: with skipFalsyValues enabled, no entry whose value is falsy (empty
\* string, zero, empty sequence, null or undefined, false) appears in the
\* output, and a mapping of only such entries serializes to the prefix alone.
FalsyValuesSkipped ==
  (last.op = "toString" /\ last.opts.skipFalsyValues = "true") =>
    /\ SubSeq(last.ret.s, 1, Len(rawId)) = rawId
    /\ \A k \in KeysOf(fields) :
         ClaimedFalsy(Get(fields, k)) => k \notin PairKeys(last.ret.s, Len(rawId))
    /\ (\A k \in KeysOf(fields) : ClaimedFalsy(Get(fields, k))) => last.ret.s = rawId

\* A mapping of two falsy entries, one of them an empty array, has been
\* serialized to its non-empty prefix with skipFalsyValues enabled.
AllFalsySerialized ==
  /\ last.op = "toString"
  /\ last.opts.skipFalsyValues = "true"
  /\ Len(fields) = 2
  /\ \A k \in KeysOf(fields) : ClaimedFalsy(Get(fields, k))
  /\ \E k \in KeysOf(fields) : Get(fields, k) = Arr(<<>>)
  /\ \E k \in KeysOf(fields) : Get(fields, k) = Str(<<>>)
  /\ Len(rawId) > 0
  /\ last.ret.s = rawId

\* C4 as stated: when the options passed to toString leave skipFalsyValues
\* unset, the result is the one skipFalsyValues: true gives.
UnsetSkipFalsyValuesMeansTrue ==
  (last.op = "toString" /\ last.given /\ last.opts.skipFalsyValues = "unset") =>
    LET filled == [last.opts EXCEPT !.skipFalsyValues = "true"] IN
    /\ last.ret = toString(rawId, fields, filled).value
    /\ last.threw = toString(rawId, fields, filled).threw

\* The mapping with every true and "true" replaced by "1".
TrueToOne(f) ==
  [i \in 1..Len(f) |->
     IF f[i].val \in {Bool(TRUE), Str(sTrue)}
     THEN Entry(f[i].key, Str(<<"1">>)) ELSE f[i]]

TrueAndTrueString == <<Entry(<<"a">>, Bool(TRUE)), Entry(<<"b">>, Str(sTrue))>>

\* C5: with convertTrueToOne enabled, the output is the one that the mapping
\* with every true and "true" replaced by "1" gives with convertTrueToOne
\* disabled; { a: true, b: "true" } gives the field block a=1&b=1.
TrueEncodedAsOne ==
  (last.op = "toString" /\ last.opts.convertTrueToOne = "true") =>
    /\ last.ret = Str(finalId(rawId, TrueToOne(fields),
                             [last.opts EXCEPT !.convertTrueToOne = "false"]))
    /\ fields = TrueAndTrueString =>
         last.ret.s = rawId \o <<"?", "a", "=", "1", "&", "b", "=", "1">>

\* { a: true, b: "true" } has been serialized with convertTrueToOne enabled.
TrueAndTrueStringSerialized ==
  /\ last.op = "toString"
  /\ last.opts.convertTrueToOne = "true"
  /\ fields = TrueAndTrueString
  /\ Len(rawId) > 0
  /\ ~last.threw

\* C6: after A.copyFieldsFrom(B), A holds B's value for every key of B, every
\* other key of A keeps its value, A has no further key, and B is unchanged.
CopyFieldsFromMerges ==
  [][last'.op = "copyFieldsFrom" =>
       LET B == IF last'.src = "other" THEN other.fields ELSE fields IN
       /\ \A k \in KeysOf(B) : HasKey(fields', k) /\ Get(fields', k) = Get(B, k)
       /\ \A k \in KeysOf(fields) \ KeysOf(B) :
            HasKey(fields', k) /\ Get(fields', k) = Get(fields, k)
       /\ KeysOf(fields') = KeysOf(fields) \cup KeysOf(B)
       /\ other' = other]_vars

\* copyFieldsFrom has returned a mapping holding a key of its own beside the
\* key of the other instance.
CopiedBesideOwnKey ==
  /\ last.op = "copyFieldsFrom"
  /\ last.src = "other"
  /\ KeysOf(other.fields) = {<<"b">>}
  /\ KeysOf(fields) = {<<"a">>, <<"b">>}
  /\ Get(fields, <<"b">>) = Get(other.fields, <<"b">>)
  /\ Get(fields, <<"a">>) # Get(fields, <<"b">>)

\* The coercion getNumericField applies to a string.
NumericCoercion(s, float, base) ==
  IF float THEN parseFloat(s) ELSE parseInt(s, base)

\* C7 as stated: getNumericArrayField applies to each entry of
\* getStringArrayField the coercion of getNumericField with the same float
\* and base; an absent field gives an empty sequence.
NumericArrayHonoursArguments ==
  last.op = "getNumericArrayField" =>
    LET S == getStringArrayField(fields, last.key).a IN
    last.ret = Arr([i \in 1..Len(S) |->
                      NumericCoercion(ToStr(S[i]), last.float, last.base)])

\* C8: getBooleanField returns true exactly for the stored values true, 1,
\* "true" and "1", and false for every other value and for an absent key.
BooleanFieldStrict ==
  last.op = "getBooleanField" =>
    LET v == Get(fields, last.key) IN
    /\ last.ret = Bool(\/ v.t = "boolean" /\ v.b
                       \/ v.t = "number" /\ v.m = 1 /\ v.e = 0
                       \/ v.t = "string" /\ v.s \in {sTrue, <<"1">>})
    /\ ~HasKey(fields, last.key) => last.ret = Bool(FALSE)

\* getBooleanField has returned true for the number 1 beside a truthy string
\* that is not in the set.
BooleanFieldOfOne ==
  /\ last.op = "getBooleanField"
  /\ Get(fields, last.key) = IntNum(1)
  /\ last.ret = Bool(TRUE)
  /\ \E k \in KeysOf(fields) : Get(fields, k) = Str(<<"f", "f">>)

\* C9: getNumericField returns, for a stored string, its integer parse in
\* the given base, or with float its base-10 floating-point parse whatever
\* the base; a stored number as it is; and not-a-number in every other case.
NumericFieldCoerces ==
  last.op = "getNumericField" =>
    LET v == Get(fields, last.key) IN
    /\ last.ret = CASE v.t = "string" ->
                         IF last.float THEN parseFloat(v.s)
                         ELSE parseInt(v.s, last.base)
                    [] v.t = "number" -> v
                    [] OTHER -> NaN
    /\ (v = Str(<<"1", ".", "5">>) /\ last.float) => last.ret = Num(15, 1)
    /\ (v = Str(<<"1", ".", "5">>) /\ ~last.float) => last.ret = IntNum(1)
    /\ (v = Str(<<"f", "f">>) /\ ~last.float /\ last.base = 16) =>
         last.ret = IntNum(255)
    /\ (v = Str(<<"f", "f">>) /\ (last.float \/ last.base = 10)) => last.ret = NaN

\* getNumericField has parsed "1.5" as a float with base 16.
FloatParsedIgnoringBase ==
  /\ last.op = "getNumericField"
  /\ last.float
  /\ last.base = 16
  /\ Get(fields, last.key) = Str(<<"1", ".", "5">>)
  /\ last.ret = Num(15, 1)

\* C10: the constructor takes as prefix the raw string up to its first "?",
\* and decodes what follows it into the mapping; without a "?" the prefix is
\* the raw string and the mapping is empty; the path parts are the prefix
\* split on "/", empty parts kept.
ConstructorSplits ==
  last.op = "new" =>
    /\ IF Includes(last.raw, "?")
       THEN /\ ~Includes(rawId, "?")
            /\ Len(last.raw) > Len(rawId)
            /\ SubSeq(last.raw, 1, Len(rawId)) = rawId
            /\ last.raw[Len(rawId) + 1] = "?"
            /\ fields = qsParse(SubSeq(last.raw, Len(rawId) + 2, Len(last.raw)))
       ELSE rawId = last.raw /\ fields = <<>>
    /\ Len(pathParts) = 1 + Cardinality({i \in 1..Len(rawId) : rawId[i] = "/"})
    /\ Join(pathParts, <<"/">>) = rawId
    /\ \A i \in 1..Len(pathParts) : ~Includes(pathParts[i], "/")

\* A string with two "?" and an empty path part, returned by toString, has
\* been passed to the constructor.
ConstructedWithTwoMarks ==
  /\ last.op = "new"
  /\ last.given
  /\ Cardinality({i \in 1..Len(last.raw) : last.raw[i] = "?"}) = 2
  /\ Len(pathParts) = 2
  /\ pathParts[2] = <<>>
  /\ Len(fields) = 1

\* A step that is one call of toString and nothing else.
SerializeStep == last'.op = "toString" /\ last'.key = <<>>

SameCall(c, d) == c.given = d.given /\ c.opts = d.opts

SameOutcome(c, d) == c.threw = d.threw /\ c.ret = d.ret

\* C11: toString is a pure read.  Whatever the options, and also when it
\* throws the length error, the mapping, the prefix and the path parts are
\* the same after the call as before it; a call repeated right away with the
\* same options has the same outcome, and so has a call repeated after calls
\* with other options.
SerializeIsPureRead ==
  [][SerializeStep =>
       /\ fields' = fields
       /\ rawId' = rawId
       /\ pathParts' = pathParts
       /\ (last.op = "toString" /\ SameCall(Prior(last'), Prior(last)))
            => SameOutcome(Prior(last'), Prior(last))
       /\ (last'.prior # NoPrior /\ SameCall(Prior(last'), last'.prior))
            => SameOutcome(Prior(last'), last'.prior)]_vars

\* A call that compresses, and throws the length error, has been repeated
\* after an earlier call with the same options.
SerializedAgainThrowing ==
  /\ last.op = "toString"
  /\ last.key = <<>>
  /\ last.prior # NoPrior
  /\ SameCall(Prior(last), last.prior)
  /\ last.threw
  /\ last.opts = Options("true", "unset")
  /\ \E k \in KeysOf(fields) : Falsy(Get(fields, k))

\* C12: no call on an instance changes its prefix or its path parts: every
\* step that is not a construction leaves rawId and pathParts as they are.
PrefixAndSegmentsFixed ==
  [][last'.op # "new" => rawId' = rawId /\ pathParts' = pathParts]_vars

\* copyFieldsFrom has returned on an instance constructed with the prefix
\* "a/b", from another instance with the prefix "o".
PrefixKeptThroughCopy ==
  /\ last.op = "copyFieldsFrom"
  /\ last.src = "other"
  /\ other.rawId = <<"o">>
  /\ rawId = <<"a", "/", "b">>
  /\ pathParts = <<<<"a">>, <<"b">>>>
  /\ Get(fields, <<"a">>) = Str(sTrue)

\* addField called once for each entry of a batch, in its order.
RECURSIVE AddFieldEach(_, _)
AddFieldEach(f, g) ==
  IF Len(g) = 0 THEN f
  ELSE AddFieldEach(addField(f, g[1].key, g[1].val), Tail(g))

\* C13: addFields(map) leaves the mapping that addField called once per entry
\* of map, in its order, leaves: the entries of map replace the stored
\* entries of the same name, and every other stored entry is kept.
AddFieldsIsAddFieldEach ==
  [][last'.op = "addFields" =>
       LET g == last'.batch IN
       /\ fields' = AddFieldEach(fields, g)
       /\ \A i \in 1..Len(g) :
            HasKey(fields', g[i].key) /\ Get(fields', g[i].key) = g[i].val
       /\ \A k \in KeysOf(fields) \ KeysOf(g) :
            HasKey(fields', k) /\ Get(fields', k) = Get(fields, k)
       /\ KeysOf(fields') = KeysOf(fields) \cup KeysOf(g)]_vars

\* addFields({ b: [] }) has replaced a stored b and kept a stored a.
BatchAddedOverStored ==
  /\ last.op = "addFields"
  /\ last.batch = <<Entry(<<"b">>, Arr(<<>>))>>
  /\ Len(fields) = 2
  /\ fields[1] = Entry(<<"b">>, Arr(<<>>))
  /\ fields[2] = Entry(<<"a">>, Str(<<"f", "f">>))

\* A step that constructs an identifier from what toString has just
\* returned with skipFalsyValues enabled.
SkippingRoundTripStep ==
  /\ last.op = "toString"
  /\ ~last.threw
  /\ last.opts.skipFalsyValues = "true"
  /\ last'.op = "new"

\* C14 as stated: a field set to "", 0 or false, serialized with
\* skipFalsyValues enabled and parsed back, is missing, and the helper of its
\* type returns the empty value of the type: getStringField "",
\* getNumericField 0, getBooleanField false.
HelpersGiveEmptyValueOfSkipped ==
  [][SkippingRoundTripStep =>
       \A k \in KeysOf(fields) :
         LET v == Get(fields, k) IN
         /\ v = Str(<<>>) =>
              ~HasKey(fields', k) /\ getStringField(fields', k) = Str(<<>>)
         /\ v = IntNum(0) =>
              ~HasKey(fields', k) /\ getNumericField(fields', k, FALSE, 10) = IntNum(0)
         /\ v = Bool(FALSE) =>
              ~HasKey(fields', k) /\ getBooleanField(fields', k) = FALSE]_vars

EmptyStringAtA == <<Entry(<<"a">>, Str(<<>>))>>

\* C15: toString() without an argument uses defaultEncodeOptions as it is
\* when the call is made: its outcome is the one the current defaults give
\* when passed explicitly, so with skipFalsyValues set to false in the
\* defaults { a: "" } is serialized as a=; a call with explicit options has
\* the outcome of those options whatever the defaults are.
DefaultsReadAtCallTime ==
  last.op = "toString" =>
    LET used == IF last.given THEN last.opts ELSE defaultEncodeOptions
        res == toString(rawId, fields, used)
    IN /\ last.ret = res.value
       /\ last.threw = res.threw
       /\ (~last.given /\ fields = EmptyStringAtA) =>
            last.ret.s = IF defaultEncodeOptions.skipFalsyValues = "false"
                         THEN rawId \o <<"?", "a", "=">> ELSE rawId
       /\ (last.given /\ fields = EmptyStringAtA) =>
            last.ret.s = IF last.opts.skipFalsyValues = "true"
                         THEN rawId ELSE rawId \o <<"?", "a", "=">>

\* toString() has serialized { a: "" } as a= after skipFalsyValues was set to
\* false in the defaults.
SerializedWithChangedDefaults ==
  /\ last.op = "toString"
  /\ ~last.given
  /\ defaultEncodeOptions = Options("false", "false")
  /\ fields = EmptyStringAtA
  /\ Len(rawId) > 0
  /\ last.ret.s = rawId \o <<"?", "a", "=">>

\* A value that has an encoding: not null, not undefined, and not an array
\* without elements or with nothing but empty elements.
Encodable(v) ==
  /\ v.t \notin {"null", "undefined"}
  /\ v.t = "array" => \E i \in 1..Len(v.a) : Len(PrimToStr(v.a[i])) > 0

\* The name=value pair of the grammar for one entry.
GrammarPair(en) ==
  en.key \o <<"=">> \o
    (IF en.val.t = "array"
     THEN Join([i \in 1..Len(en.val.a) |-> PrimToStr(en.val.a[i])], <<",">>)
     ELSE PrimToStr(en.val))

\* C16: when the compressed mapping has no encodable entry, toString gives
\* the prefix alone, without a "?"; otherwise it gives the prefix, a "?" and
\* the name=value pairs of the encodable entries joined by "&", an array
\* being one pair with its elements joined by ",": { a: ["ff", 1] } gives
\* a=ff,1.
OutputGrammar ==
  last.op = "toString" =>
    LET enc == SelectSeq(compressFields(fields, last.opts),
                         LAMBDA en : Encodable(en.val))
        pairs == [i \in 1..Len(enc) |-> GrammarPair(enc[i])]
    IN /\ Len(enc) = 0 => last.ret.s = rawId
       /\ Len(enc) > 0 => last.ret.s = rawId \o <<"?">> \o Join(pairs, <<"&">>)
       /\ fields = <<Entry(<<"a">>, Arr(<<Str(<<"f", "f">>), IntNum(1)>>))>> =>
            last.ret.s = rawId \o <<"?", "a", "=", "f", "f", ",", "1">>

\* An array of two elements and a string have been serialized as two pairs.
ArrayAndStringSerialized ==
  /\ last.op = "toString"
  /\ ~last.threw
  /\ rawId = <<"a", "/", "b">>
  /\ last.ret.s =
       rawId \o <<"?", "a", "=", "f", "f", ",", "1", "&", "b", "=", "1", ".", "5">>

\* C17: only toString raises, and only the length error for a composed
\* string of more than 100 characters: whatever the constructor, addField,
\* addFields, removeField, copyFieldsFrom or an accessor is called on, also
\* an identifier that toString refuses, the call returns.
OnlySerializeRaises ==
  /\ last.threw =>
       /\ last.op = "toString"
       /\ toString(rawId, fields, last.opts).error = "DataCustomIdLengthError"
       /\ Len(last.ret.s) > 100
  /\ last.op \in {"new", "addField", "addFields", "removeField", "copyFieldsFrom",
                  "getFields", "getStringField", "getStringArrayField",
                  "getNumericField", "getNumericArrayField", "getBooleanField"}
       => ~last.threw

\* addField has returned on an identifier that toString() refused before the
\* call and refuses after it.
AddedBeyondLimit ==
  /\ last.op = "addField"
  /\ ~last.threw
  /\ Len(fields) = 2
  /\ toString(rawId, fields, defaultEncodeOptions).threw
  /\ toString(rawId, removeField(fields, last.key), defaultEncodeOptions).threw

\* A step in which the caller that caught the length error removes a field
\* and calls toString again.
RetryStep ==
  /\ last.op = "toString"
  /\ last.threw
  /\ last'.op = "toString"
  /\ last'.key # <<>>

\* C18: a toString that throws the length error leaves the mapping, the
\* prefix and the path parts as they were; and when the caller then removes
\* a field, the next toString returns the composed string if it now has at
\* most 100 characters, and throws only if it is still longer.
RecoverableAfterLengthError ==
  [][/\ (SerializeStep /\ last'.threw) =>
          fields' = fields /\ rawId' = rawId /\ pathParts' = pathParts
     /\ RetryStep =>
          LET composed == rawId' \o qsStringify(compressFields(fields', last'.opts))
          IN /\ fields' = removeField(fields, last'.key)
             /\ rawId' = rawId
             /\ last'.ret = Str(composed)
             /\ last'.threw <=> Len(composed) > 100]_vars

\* After a length error and the removal of b, toString has returned a string
\* of exactly 100 characters.
RecoveredAtLimit ==
  /\ last.op = "toString"
  /\ last.key = <<"b">>
  /\ ~last.threw
  /\ Len(last.ret.s) = 100
  /\ Len(fields) = 1

\* A step that constructs an identifier from what toString() has just
\* returned.
DefaultRoundTripStep ==
  /\ last.op = "toString"
  /\ ~last.threw
  /\ ~last.given
  /\ last'.op = "new"

\* An array of strings without a comma.
CommaFreeStrings(v) ==
  /\ v.t = "array"
  /\ \A i \in 1..Len(v.a) : v.a[i].t = "string" /\ ~Includes(v.a[i].s, ",")

\* An array of non-empty strings without a reserved character.
PlainElements(v) ==
  /\ v.t = "array"
  /\ \A i \in 1..Len(v.a) : v.a[i].t = "string" /\ PlainString(v.a[i].s)

====
